---- MODULE Spec2Model ----
(***************************************************************************)
(* Courier simulator (q-ryer): the shift / search / order lifecycle of the *)
(* browser client.  One page session: GameState, ShiftManager (revision    *)
(* with ensureSocketLogin), OrderModal, SocketManager, StateManager and    *)
(* the GeolocationManager, together with the REST requests, realtime       *)
(* events and timers that are in flight between them and the backend.      *)
(*                                                                         *)
(* Every handler of the page runs to its next await as one action; the     *)
(* part after the await is the action of the matching response.            *)
(*                                                                         *)
(* Environment: window.__socket is connected and gameState.userId is       *)
(* truthy, so every emit of the SocketManager reaches the channel; the     *)
(* order modal covers the primary button while it is displayed; the        *)
(* backend is the environment (it answers requests with either outcome and *)
(* runs at most one search per socket).  search_progress, the position     *)
(* watch callbacks and the profile panel are outside the lifecycle         *)
(* modelled here.                                                          *)
(*                                                                         *)
(* The session store (GameState.save / restore over localStorage) is part  *)
(* of every handler that calls a setter.  The clock counts whole hours and *)
(* does not advance within one page session; writes to localStorage        *)
(* succeed.  StoreSpec is the store on its own, with its setters, the      *)
(* revisions of restore() and the clock; StopSpec is the page with         *)
(* stopTracking and stopZoneChecking callable at any time, ActivitySpec    *)
(* adds startTracking and startZoneChecking; CoopSpec is the page with a   *)
(* courier who keeps acting and a backend that lets them; LoginOnceSpec is *)
(* the page with the startSearching of the ShiftManager revision that logs *)
(* in only in startShift.                                                  *)
(***************************************************************************)
EXTENDS Integers, FiniteSets, Sequences, Bags, TLC

\* ---------------------------------------------------------------- bounds
\* Number of requests, events and timers that may be pending at once.
\* User input and server events are accepted only below this load;
\* responses and timer firings are never held back.
MaxLoad == 2
\* Order identifiers the backend hands out.
MaxOrderId == 2
\* The counter of user_login emissions since the last mark stops here.
MaxLogins == 2

OrderIds == 1..MaxOrderId

\* ---------------------------------------------------------------- values
\* currentOrder = null
NoOrder == [id |-> 0, pickup_time |-> FALSE, status |-> "none"]

Order(i, pt, st) == [id |-> i, pickup_time |-> pt, status |-> st]

\* SHIFT_STATES plus the two literal states updateShiftButton knows
ButtonStates ==
  {"requesting_gps", "REQUESTING_GPS_ACTIVE", "start_shift", "end_shift",
   "searching", "to_pickup", "at_pickup", "to_dropoff", "at_dropoff",
   "UNSUPPORTED"}

\* a zone poll result: the zones object of POST /api/position
ZoneResults ==
  [in_pickup_zone : BOOLEAN, can_pickup : BOOLEAN,
   in_dropoff_zone : BOOLEAN, can_deliver : BOOLEAN]

Req(k, o, i) == [kind |-> k, origin |-> o, oid |-> i]
Evt(e, i) == [ev |-> e, oid |-> i]

VARIABLES
  isOnShift,            \* GameState.state.isOnShift
  isSearching,          \* GameState.state.isSearching
  currentOrder,         \* GameState.state.currentOrder (NoOrder = null)
  supported,            \* 'geolocation' in navigator
  storedPermission,     \* localStorage gps permission flag = 'true'
  currentPosition,      \* geoManager.currentPosition !== null
  isTracking,           \* geoManager.watchId !== null
  watches,              \* position watches registered with the browser and not cleared
  zoneCheckInterval,    \* shiftManager.zoneCheckInterval !== null
  intervalTimers,       \* setInterval timers of checkZones created and not cleared
  buttonText,           \* which state's caption the primary button shows
  disabled,             \* button.disabled
  modalOpen,            \* orderModal is displayed
  inflight,             \* bag of REST / geolocation requests not yet answered
  events,               \* bag of realtime events sent by the backend, not yet delivered
  searchTimers,         \* pending setTimeout(() => startSearching())
  emitTimers,           \* pending setTimeout(() => startOrderSearch(5), 100)
  srvSearch,            \* backend search for this socket: "idle", "started", "running"
  firstSearch,          \* a start_shift succeeded and no start_order_search was emitted since
  logins,               \* user_login emissions since that start_shift, while firstSearch
  loggedIn,             \* a user_login was emitted in this page session
  resumeLogin,          \* since the last successful deliver, until start_order_search is
                        \* emitted: "pending" no user_login yet, "login" one was emitted
                        \* ("none" outside that window)
  balance,              \* text of #balanceAmount: "page" as rendered, "response" once written
                        \* from a deliver or status response
  userId,               \* GameState.state.userId
  storage,              \* localStorage['courierGameState'], parsed (see NoBlob, Blob)
  now,                  \* Date.now(), in hours
  restoreResult         \* what GameState.restore() returned, when the step just taken was that call ("none" otherwise)

vars == <<isOnShift, isSearching, currentOrder, supported, storedPermission,
          currentPosition, isTracking, watches, zoneCheckInterval,
          intervalTimers, buttonText, disabled,
          modalOpen, inflight, events, searchTimers, emitTimers, srvSearch,
          logins, loggedIn, firstSearch, resumeLogin, balance,
          userId, storage, now, restoreResult>>

storeVars == <<userId, storage, now, restoreResult>>

gameVars == <<isOnShift, isSearching, currentOrder>>
geoVars == <<supported, storedPermission, currentPosition, isTracking, watches>>
chanVars == <<srvSearch, logins, loggedIn, firstSearch>>

\* ---------------------------------------------------------------- helpers
Load == BagCardinality(inflight) + BagCardinality(events) + searchTimers + emitTimers

Send(r) == inflight (+) SetToBag({r})
Recv(r) == inflight (-) SetToBag({r})

\* updateShiftButton: the switch sets disabled per state
ButtonDisabled(state) == state \in {"REQUESTING_GPS_ACTIVE", "UNSUPPORTED"}

hasOrder == currentOrder # NoOrder

\* startZoneChecking(): stopZoneChecking() first (clearInterval when the
\* handle is set), then one setInterval
TimersAfterStart(handle, n) == (IF handle THEN n - 1 ELSE n) + 1

\* stopZoneChecking(): clearInterval when the handle is set
TimersAfterStop(handle, n) == IF handle THEN n - 1 ELSE n

\* startTracking(): nothing when unsupported or already tracking, else one
\* watchPosition
WatchesAfterStart(sup, tracking, n) == IF ~sup \/ tracking THEN n ELSE n + 1

\* stopTracking(): clearWatch when watchId is set
WatchesAfterStop(tracking, n) == IF tracking THEN n - 1 ELSE n

\* ensureSocketLogin -> socketManager.loginUser: emits user_login when the
\* userId is truthy (userId is 1 unless a truthy id replaced it)
ensureSocketLogin(n) == IF n < MaxLogins THEN n + 1 ELSE n

\* faulty variant: the zone alone decides, the backend's eligibility flag is not read
ZoneStateByZoneOnly(pickup_time, zones) ==
  IF ~pickup_time
    THEN IF zones.in_pickup_zone THEN "at_pickup" ELSE "to_pickup"
    ELSE IF zones.in_dropoff_zone THEN "at_dropoff" ELSE "to_dropoff"

\* checkZones, lines 815-827: the state derived from the order and the zones
ZoneState(pickup_time, zones) ==
  IF ~pickup_time
    THEN IF zones.in_pickup_zone /\ zones.can_pickup THEN "at_pickup" ELSE "to_pickup"
    ELSE IF zones.in_dropoff_zone /\ zones.can_deliver THEN "at_dropoff" ELSE "to_dropoff"

\* ---------------------------------------------------------------- GameState
\* localStorage.getItem('courierGameState') returns null
NoBlob ==
  [kind |-> "absent", isOnShift |-> FALSE, isSearching |-> FALSE,
   currentOrder |-> NoOrder, userId |-> 0, hasLastSaved |-> FALSE, lastSaved |-> 0]

\* the stored text does not parse, or parses to a value whose lastSaved
\* cannot be read (JSON null): restore() ends in its catch block
Garbage ==
  [kind |-> "garbage", isOnShift |-> FALSE, isSearching |-> FALSE,
   currentOrder |-> NoOrder, userId |-> 0, hasLastSaved |-> FALSE, lastSaved |-> 0]

\* JSON.stringify({...this.state, lastSaved: Date.now()}), parsed again
Blob(io, is, co, u, t) ==
  [kind |-> "object", isOnShift |-> io, isSearching |-> is,
   currentOrder |-> co, userId |-> u, hasLastSaved |-> TRUE, lastSaved |-> t]

\* a stored object without a lastSaved key (userId 0: no userId key either)
BlobWithoutLastSaved(io, is, co, u) ==
  [kind |-> "object", isOnShift |-> io, isSearching |-> is,
   currentOrder |-> co, userId |-> u, hasLastSaved |-> FALSE, lastSaved |-> 0]

\* save(), called at the end of every setter: the whole state is written
save == storage' = Blob(isOnShift', isSearching', currentOrder', userId, now)

\* ---------------------------------------------------------------- Init
\* DOMContentLoaded: initializeModules (fresh GameState, initializeGeolocation)
\* and restoreState (GET /api/status is sent).
Init ==
  /\ isOnShift = FALSE
  /\ isSearching = FALSE
  /\ currentOrder = NoOrder
  /\ supported \in BOOLEAN
  /\ storedPermission \in BOOLEAN
  /\ currentPosition = FALSE
  /\ isTracking = FALSE
  /\ zoneCheckInterval = FALSE
  /\ buttonText = IF supported THEN "requesting_gps" ELSE "UNSUPPORTED"
  /\ disabled = ~supported
  /\ modalOpen = FALSE
  /\ inflight = SetToBag({Req("status", "restore", 0)})
                 (+) (IF supported /\ storedPermission
                        THEN SetToBag({Req("geo_silent", "init", 0)})
                        ELSE EmptyBag)
  /\ events = EmptyBag
  /\ searchTimers = 0
  /\ emitTimers = 0
  /\ srvSearch = "idle"
  /\ logins = 0
  /\ loggedIn = FALSE
  /\ watches = 0
  /\ intervalTimers = 0
  /\ firstSearch = FALSE
  /\ balance = "page"
  /\ resumeLogin = "none"
  /\ userId = 1
  /\ storage = NoBlob
  /\ now = 0
  /\ restoreResult = "none"

\* ---------------------------------------------------------------- ShiftManager
\* the primary button accepts a click
Clickable == ~disabled /\ ~modalOpen

\* faulty variant: the delayed startSearching is never scheduled
setTimeoutDropped(n) == n

\* setTimeout(() => this.startSearching(), 500 | 1000)
setTimeoutStartSearching(n) == n + 1

\* startSearching(): ensureSocketLogin, setSearchingStatus(true),
\* updateShiftButton(SEARCHING), setTimeout(startOrderSearch, 100)
startSearching ==
  /\ logins' = IF firstSearch THEN ensureSocketLogin(logins) ELSE logins
  /\ loggedIn' = (loggedIn \/ ensureSocketLogin(0) # 0)
  \* the second mark of the same emission: a user_login inside the deliver window
  /\ resumeLogin' = IF resumeLogin = "none" \/ ensureSocketLogin(0) = 0
                       THEN resumeLogin ELSE "login"
  /\ isSearching' = TRUE
  /\ buttonText' = "searching"
  /\ disabled' = ButtonDisabled("searching")
  /\ emitTimers' = emitTimers + 1

\* the catch block of handleShiftButtonClick (lines 582-590)
ClickCatch ==
  IF ~storedPermission \/ ~currentPosition
    THEN buttonText' = "requesting_gps" /\ disabled' = ButtonDisabled("requesting_gps")
    ELSE IF ~isOnShift
      THEN buttonText' = "start_shift" /\ disabled' = ButtonDisabled("start_shift")
      ELSE UNCHANGED <<buttonText, disabled>>

\* handleShiftButtonClick, first branch: no stored permission or no position
ClickRequestGPS ==
  /\ Clickable
  /\ ~storedPermission \/ ~currentPosition
  /\ IF supported
       THEN /\ Load < MaxLoad
            /\ buttonText' = "REQUESTING_GPS_ACTIVE"
            /\ disabled' = ButtonDisabled("REQUESTING_GPS_ACTIVE")
            /\ inflight' = Send(Req(IF storedPermission THEN "geo_silent" ELSE "geo_prompt",
                                    "click", 0))
       ELSE \* requestPermission throws at once; the inner catch runs
            /\ buttonText' = "requesting_gps"
            /\ disabled' = ButtonDisabled("requesting_gps")
            /\ UNCHANGED inflight
  /\ UNCHANGED <<gameVars, geoVars, chanVars, zoneCheckInterval, intervalTimers, modalOpen,
                 events, searchTimers, emitTimers,
                 balance, resumeLogin, storeVars>>

\* handleShiftButtonClick -> startShift, up to the fetch
ClickStartShift ==
  /\ Clickable
  /\ storedPermission /\ currentPosition
  /\ ~isOnShift
  /\ Load < MaxLoad
  /\ inflight' = Send(Req("start_shift", "click", 0))
  /\ UNCHANGED <<gameVars, geoVars, chanVars, zoneCheckInterval, intervalTimers, buttonText,
                 disabled, modalOpen, events, searchTimers, emitTimers,
                 balance, resumeLogin, storeVars>>

\* faulty variant: startShift marks the shift as started before it looks at
\* response.ok
startShiftResponseCommitsEarly(r, ok) ==
    /\ r \in BagToSet(inflight)
    /\ r.kind = "start_shift"
    /\ inflight' = Recv(r)
    /\ isOnShift' = TRUE
    /\ IF ok
         THEN /\ isTracking' = (supported \/ isTracking)
         /\ watches' = WatchesAfterStart(supported, isTracking, watches)
              /\ logins' = ensureSocketLogin(0)
              /\ loggedIn' = (loggedIn \/ ensureSocketLogin(0) # 0)
              /\ firstSearch' = TRUE
              /\ zoneCheckInterval' = TRUE
              /\ intervalTimers' = TimersAfterStart(zoneCheckInterval, intervalTimers)
              /\ searchTimers' = setTimeoutStartSearching(searchTimers)
              /\ UNCHANGED <<buttonText, disabled>>
         ELSE /\ UNCHANGED <<buttonText, disabled>>
              /\ UNCHANGED <<isTracking, watches, logins, loggedIn, firstSearch,
                             zoneCheckInterval, intervalTimers, searchTimers>>
    /\ UNCHANGED <<isSearching, currentOrder, supported, storedPermission,
                   currentPosition, modalOpen, events, emitTimers, srvSearch,
                   balance, resumeLogin, userId, now, restoreResult>>
    /\ save

\* startShift after the fetch resolved, and the click handler's catch
startShiftResponse(r, ok) ==
    /\ r \in BagToSet(inflight)
    /\ r.kind = "start_shift"
    /\ inflight' = Recv(r)
    /\ IF ok
         THEN /\ isOnShift' = TRUE
              /\ isTracking' = (supported \/ isTracking)
              /\ watches' = WatchesAfterStart(supported, isTracking, watches)
              /\ logins' = ensureSocketLogin(0)
              /\ loggedIn' = (loggedIn \/ ensureSocketLogin(0) # 0)
              /\ firstSearch' = TRUE
              /\ zoneCheckInterval' = TRUE
              /\ intervalTimers' = TimersAfterStart(zoneCheckInterval, intervalTimers)
              /\ searchTimers' = setTimeoutStartSearching(searchTimers)
              /\ UNCHANGED <<buttonText, disabled>>
         ELSE /\ ClickCatch
              /\ UNCHANGED <<isOnShift, isTracking, watches, logins, loggedIn, firstSearch,
                             zoneCheckInterval, intervalTimers, searchTimers>>
    /\ UNCHANGED <<isSearching, currentOrder, supported, storedPermission,
                   currentPosition, modalOpen, events, emitTimers, srvSearch,
                 balance, resumeLogin, userId, now, restoreResult>>
    /\ IF ok THEN save ELSE UNCHANGED storage

StartShiftResponse ==
  \E r \in BagToSet(inflight), ok \in BOOLEAN : startShiftResponse(r, ok)

\* the delayed startSearching of startShift / deliverOrder fires
SearchTimerFires ==
  /\ searchTimers > 0
  /\ searchTimers' = searchTimers - 1
  /\ startSearching
  /\ UNCHANGED <<isOnShift, currentOrder, geoVars, zoneCheckInterval, intervalTimers, modalOpen,
                 inflight, events, srvSearch, firstSearch,
                 balance, userId, now, restoreResult>>
  /\ save

\* the 100 ms timer of startSearching fires: socketManager.startOrderSearch(5)
EmitTimerFires ==
  /\ emitTimers > 0
  /\ emitTimers' = emitTimers - 1
  /\ srvSearch' = "started"
  /\ firstSearch' = FALSE
  /\ logins' = 0
  /\ loggedIn' = loggedIn
  /\ resumeLogin' = "none"
  /\ UNCHANGED <<gameVars, geoVars, zoneCheckInterval, intervalTimers, buttonText, disabled,
                 modalOpen, inflight, events, searchTimers,
                 balance, storeVars>>

\* faulty variant: stopSearching clears the flag and tells the backend nothing
ClickStopSearchingSilent ==
  /\ Clickable
  /\ storedPermission /\ currentPosition
  /\ isOnShift /\ isSearching
  /\ isSearching' = FALSE
  /\ buttonText' = "end_shift"
  /\ disabled' = ButtonDisabled("end_shift")
  /\ UNCHANGED <<isOnShift, currentOrder, geoVars, zoneCheckInterval, intervalTimers, modalOpen,
                 inflight, events, searchTimers, emitTimers, chanVars,
                 balance, resumeLogin, userId, now, restoreResult>>
  /\ save

\* handleShiftButtonClick -> stopSearching
ClickStopSearching ==
  /\ Clickable
  /\ storedPermission /\ currentPosition
  /\ isOnShift /\ isSearching
  /\ isSearching' = FALSE
  /\ buttonText' = "end_shift"
  /\ disabled' = ButtonDisabled("end_shift")
  /\ srvSearch' = "idle"
  /\ UNCHANGED <<isOnShift, currentOrder, geoVars, zoneCheckInterval, intervalTimers, modalOpen,
                 inflight, events, searchTimers, emitTimers, logins, loggedIn, firstSearch,
                 balance, resumeLogin, userId, now, restoreResult>>
  /\ save

\* handleShiftButtonClick -> endShift, up to the fetch (no order is held on
\* this path, so confirm() is not asked)
ClickEndShift ==
  /\ Clickable
  /\ storedPermission /\ currentPosition
  /\ isOnShift /\ ~isSearching /\ ~hasOrder
  /\ Load < MaxLoad
  /\ inflight' = Send(Req("stop_shift", "click", 0))
  /\ UNCHANGED <<gameVars, geoVars, chanVars, zoneCheckInterval, intervalTimers, buttonText,
                 disabled, modalOpen, events, searchTimers, emitTimers,
                 balance, resumeLogin, storeVars>>

\* faulty variant: endShift clears the session flags and leaves the position
\* watch and the poll timer running
endShiftResponseKeepsActivities(r, ok) ==
    /\ r \in BagToSet(inflight)
    /\ r.kind = "stop_shift"
    /\ inflight' = Recv(r)
    /\ IF ok
         THEN /\ isOnShift' = FALSE
              /\ isSearching' = FALSE
              /\ currentOrder' = NoOrder
              /\ buttonText' = "start_shift"
              /\ disabled' = ButtonDisabled("start_shift")
         ELSE /\ IF r.origin = "click"
                   THEN ClickCatch
                   ELSE UNCHANGED <<buttonText, disabled>>
              /\ UNCHANGED <<gameVars>>
    /\ UNCHANGED <<supported, storedPermission, currentPosition, chanVars,
                   isTracking, watches, zoneCheckInterval, intervalTimers, modalOpen, events, searchTimers,
                   emitTimers, balance, resumeLogin, userId, now, restoreResult>>
    /\ IF ok THEN save ELSE UNCHANGED storage

\* endShift after the fetch resolved, and the click handler's catch
endShiftResponse(r, ok) ==
    /\ r \in BagToSet(inflight)
    /\ r.kind = "stop_shift"
    /\ inflight' = Recv(r)
    /\ IF ok
         THEN /\ isOnShift' = FALSE
              /\ isSearching' = FALSE
              /\ currentOrder' = NoOrder
              /\ isTracking' = FALSE
              /\ watches' = WatchesAfterStop(isTracking, watches)
              /\ zoneCheckInterval' = FALSE
              /\ intervalTimers' = TimersAfterStop(zoneCheckInterval, intervalTimers)
              /\ buttonText' = "start_shift"
              /\ disabled' = ButtonDisabled("start_shift")
         ELSE /\ IF r.origin = "click"
                   THEN ClickCatch
                   ELSE UNCHANGED <<buttonText, disabled>>
              /\ UNCHANGED <<gameVars, isTracking, watches, zoneCheckInterval, intervalTimers>>
    /\ UNCHANGED <<supported, storedPermission, currentPosition, chanVars,
                   modalOpen, events, searchTimers, emitTimers,
                 balance, resumeLogin, userId, now, restoreResult>>
    /\ IF ok THEN save ELSE UNCHANGED storage

EndShiftResponse ==
  \E r \in BagToSet(inflight), ok \in BOOLEAN : endShiftResponse(r, ok)

\* faulty variant: endShift does not wait for the confirmation
endShiftUnconfirmed(confirmed) ==
  /\ Load < MaxLoad
  /\ inflight' = Send(Req("stop_shift", "call", 0))
  /\ UNCHANGED <<gameVars, geoVars, chanVars, zoneCheckInterval, intervalTimers, buttonText,
                 disabled, modalOpen, events, searchTimers, emitTimers,
                 balance, resumeLogin, storeVars>>

\* endShift() up to the fetch: with an order held confirm() is asked first and
\* a declined confirmation returns at once
endShift(confirmed) ==
  IF hasOrder /\ ~confirmed
    THEN UNCHANGED vars
    ELSE /\ Load < MaxLoad
         /\ inflight' = Send(Req("stop_shift", "call", 0))
         /\ UNCHANGED <<gameVars, geoVars, chanVars, zoneCheckInterval, intervalTimers, buttonText,
                        disabled, modalOpen, events, searchTimers, emitTimers,
                        balance, resumeLogin, storeVars>>

\* endShift is invoked while an order is held.  The primary button never does
\* this (its handler reaches endShift only with no order held); the method is
\* public on window.shiftManager.
EndShiftHeld ==
  \E confirmed \in BOOLEAN : hasOrder /\ endShift(confirmed)

\* handleShiftButtonClick with an order held: the caption decides
ClickPickup ==
  /\ Clickable
  /\ storedPermission /\ currentPosition
  /\ isOnShift /\ ~isSearching /\ hasOrder
  /\ buttonText = "at_pickup"
  /\ Load < MaxLoad
  /\ inflight' = Send(Req("pickup", "click", currentOrder.id))
  /\ UNCHANGED <<gameVars, geoVars, chanVars, zoneCheckInterval, intervalTimers, buttonText,
                 disabled, modalOpen, events, searchTimers, emitTimers,
                 balance, resumeLogin, storeVars>>

ClickDeliver ==
  /\ Clickable
  /\ storedPermission /\ currentPosition
  /\ isOnShift /\ ~isSearching /\ hasOrder
  /\ buttonText = "at_dropoff"
  /\ Load < MaxLoad
  /\ inflight' = Send(Req("deliver", "click", 0))
  /\ UNCHANGED <<gameVars, geoVars, chanVars, zoneCheckInterval, intervalTimers, buttonText,
                 disabled, modalOpen, events, searchTimers, emitTimers,
                 balance, resumeLogin, storeVars>>

\* any other caption with an order held: openNavigation (a new browser tab)
ClickNavigate ==
  /\ Clickable
  /\ storedPermission /\ currentPosition
  /\ isOnShift /\ ~isSearching /\ hasOrder
  /\ buttonText \notin {"at_pickup", "at_dropoff"}
  /\ UNCHANGED <<gameVars, geoVars, chanVars, zoneCheckInterval, intervalTimers, buttonText,
                 disabled, modalOpen, inflight, events, searchTimers, emitTimers,
                 balance, resumeLogin, storeVars>>

\* faulty variant: pickupOrder stores result.order as it came, without
\* pickup_time
pickupOrderResponseNoPickupTime(r, success) ==
    /\ r \in BagToSet(inflight)
    /\ r.kind = "pickup"
    /\ inflight' = Recv(r)
    /\ IF success
         THEN /\ currentOrder' = Order(r.oid, FALSE, "active")
              /\ buttonText' = "to_dropoff"
              /\ disabled' = ButtonDisabled("to_dropoff")
         ELSE UNCHANGED <<currentOrder, buttonText, disabled>>
    /\ UNCHANGED <<isOnShift, isSearching, geoVars, chanVars, zoneCheckInterval, intervalTimers,
                   modalOpen, events, searchTimers, emitTimers,
                   balance, resumeLogin, userId, now, restoreResult>>
    /\ IF success THEN save ELSE UNCHANGED storage

\* faulty variant: pickupOrder does not look at result.success
pickupOrderResponseIgnoresSuccess(r, success) ==
    /\ r \in BagToSet(inflight)
    /\ r.kind = "pickup"
    /\ inflight' = Recv(r)
    /\ currentOrder' = Order(r.oid, TRUE, "active")
    /\ buttonText' = "to_dropoff"
    /\ disabled' = ButtonDisabled("to_dropoff")
    /\ UNCHANGED <<isOnShift, isSearching, geoVars, chanVars, zoneCheckInterval, intervalTimers,
                   modalOpen, events, searchTimers, emitTimers,
                   balance, resumeLogin, userId, now, restoreResult>>
    /\ save

\* pickupOrder after the fetch resolved; result.order is the backend's copy
\* of the order the request was about
pickupOrderResponse(r, success) ==
    /\ r \in BagToSet(inflight)
    /\ r.kind = "pickup"
    /\ inflight' = Recv(r)
    /\ IF success
         THEN /\ currentOrder' = Order(r.oid, TRUE, "active")
              /\ buttonText' = "to_dropoff"
              /\ disabled' = ButtonDisabled("to_dropoff")
         ELSE UNCHANGED <<currentOrder, buttonText, disabled>>
    /\ UNCHANGED <<isOnShift, isSearching, geoVars, chanVars, zoneCheckInterval, intervalTimers,
                   modalOpen, events, searchTimers, emitTimers,
                 balance, resumeLogin, userId, now, restoreResult>>
    /\ IF success THEN save ELSE UNCHANGED storage

PickupResponse ==
  \E r \in BagToSet(inflight), success \in BOOLEAN : pickupOrderResponse(r, success)

\* faulty variant: deliverOrder applies the success branch whatever the answer
deliverOrderResponseAlwaysCommits(r, success) ==
    /\ r \in BagToSet(inflight)
    /\ r.kind = "deliver"
    /\ inflight' = Recv(r)
    /\ currentOrder' = NoOrder
    /\ zoneCheckInterval' = FALSE
    /\ intervalTimers' = TimersAfterStop(zoneCheckInterval, intervalTimers)
    /\ balance' = "response"
    /\ resumeLogin' = "pending"
    /\ searchTimers' = setTimeoutStartSearching(searchTimers)
    /\ UNCHANGED <<isOnShift, isSearching, geoVars, chanVars, buttonText, disabled,
                   modalOpen, events, emitTimers, userId, now, restoreResult>>
    /\ save

\* deliverOrder after the fetch resolved
deliverOrderResponse(r, success) ==
    /\ r \in BagToSet(inflight)
    /\ r.kind = "deliver"
    /\ inflight' = Recv(r)
    /\ IF success
         THEN /\ currentOrder' = NoOrder
              /\ zoneCheckInterval' = FALSE
              /\ intervalTimers' = TimersAfterStop(zoneCheckInterval, intervalTimers)
              /\ balance' = "response"
              /\ resumeLogin' = "pending"
              /\ searchTimers' = setTimeoutStartSearching(searchTimers)
         ELSE UNCHANGED <<currentOrder, zoneCheckInterval, intervalTimers, balance, resumeLogin,
                          searchTimers>>
    /\ UNCHANGED <<isOnShift, isSearching, geoVars, chanVars, buttonText, disabled,
                   modalOpen, events, emitTimers, userId, now, restoreResult>>
    /\ IF success THEN save ELSE UNCHANGED storage

DeliverResponse ==
  \E r \in BagToSet(inflight), success \in BOOLEAN : deliverOrderResponse(r, success)

\* faulty variant: the tick polls whether or not an order is held
ZoneTickUnguarded ==
  /\ zoneCheckInterval
  /\ Load < MaxLoad
  /\ inflight' = Send(Req("position", "tick", currentOrder.id))
  /\ UNCHANGED <<gameVars, geoVars, chanVars, zoneCheckInterval, intervalTimers, buttonText,
                 disabled, modalOpen, events, searchTimers, emitTimers,
                 balance, resumeLogin, storeVars>>

\* the 2 s interval fires: checkZones up to the fetch
ZoneTick ==
  /\ zoneCheckInterval
  /\ IF ~hasOrder \/ ~currentPosition
       THEN UNCHANGED inflight
       ELSE /\ Load < MaxLoad
            /\ inflight' = Send(Req("position", "tick", currentOrder.id))
  /\ UNCHANGED <<gameVars, geoVars, chanVars, zoneCheckInterval, intervalTimers, buttonText,
                 disabled, modalOpen, events, searchTimers, emitTimers,
                 balance, resumeLogin, storeVars>>

\* checkZones after the fetch resolved.  With no order held, order.pickup_time
\* throws a TypeError that the catch block swallows.
checkZonesResponse(r, ok, zones) ==
  /\ r \in BagToSet(inflight)
  /\ r.kind = "position"
  /\ inflight' = Recv(r)
  /\ IF ok /\ hasOrder
       THEN /\ buttonText' = ZoneState(currentOrder.pickup_time, zones)
            /\ disabled' = ButtonDisabled(ZoneState(currentOrder.pickup_time, zones))
       ELSE UNCHANGED <<buttonText, disabled>>
  /\ UNCHANGED <<gameVars, geoVars, chanVars, zoneCheckInterval, intervalTimers, modalOpen,
                 events, searchTimers, emitTimers,
                 balance, resumeLogin, storeVars>>

\* a failed poll carries no zones
NoZones ==
  [in_pickup_zone |-> FALSE, can_pickup |-> FALSE,
   in_dropoff_zone |-> FALSE, can_deliver |-> FALSE]

ZoneResponse ==
  \E r \in BagToSet(inflight), ok \in BOOLEAN :
    \E zones \in (IF ok THEN ZoneResults ELSE {NoZones}) :
      checkZonesResponse(r, ok, zones)

\* ---------------------------------------------------------------- GeolocationManager
\* faulty variant: the caller advances to START_SHIFT whatever the outcome of
\* the permission request
requestPermissionResponseAlwaysAdvances(r, res) ==
    /\ r \in BagToSet(inflight)
    /\ r.kind \in {"geo_silent", "geo_prompt"}
    /\ inflight' = Recv(r)
    /\ currentPosition' = (res = "ok" \/ currentPosition)
    /\ storedPermission' =
         IF res = "ok" /\ r.kind = "geo_prompt" THEN TRUE
         ELSE IF res = "denied" THEN FALSE
         ELSE storedPermission
    /\ isTracking' = IF res = "ok" /\ r.origin = "restore" THEN TRUE ELSE isTracking
    /\ watches' = IF res = "ok" /\ r.origin = "restore"
                 THEN WatchesAfterStart(supported, isTracking, watches) ELSE watches
    /\ buttonText' = "start_shift"
    /\ disabled' = FALSE
    /\ UNCHANGED <<gameVars, supported, chanVars, zoneCheckInterval, intervalTimers, modalOpen,
                   events, searchTimers, emitTimers,
                   balance, resumeLogin, storeVars>>

\* faulty variant: a failed permission request leaves the button as the click
\* left it
requestPermissionResponseKeepsButton(r, res) ==
    /\ r \in BagToSet(inflight)
    /\ r.kind \in {"geo_silent", "geo_prompt"}
    /\ inflight' = Recv(r)
    /\ currentPosition' = (res = "ok" \/ currentPosition)
    /\ storedPermission' =
         IF res = "ok" /\ r.kind = "geo_prompt" THEN TRUE
         ELSE IF res = "denied" THEN FALSE
         ELSE storedPermission
    /\ isTracking' = IF res = "ok" /\ r.origin = "restore" THEN TRUE ELSE isTracking
    /\ watches' = IF res = "ok" /\ r.origin = "restore"
                 THEN WatchesAfterStart(supported, isTracking, watches) ELSE watches
    /\ IF res # "ok"
         THEN UNCHANGED <<buttonText, disabled>>
         ELSE /\ buttonText' =
                   IF r.origin = "init" /\ isOnShift /\ hasOrder THEN "end_shift"
                   ELSE IF r.origin = "init" /\ isOnShift /\ isSearching THEN "searching"
                   ELSE "start_shift"
              /\ disabled' = FALSE
    /\ UNCHANGED <<gameVars, supported, chanVars, zoneCheckInterval, intervalTimers, modalOpen,
                   events, searchTimers, emitTimers,
                   balance, resumeLogin, storeVars>>

\* getCurrentPosition answers a requestPermission call: the success / error
\* callback (the onPermissionGranted / onPermissionDenied hooks are the
\* ShiftManager's) and then the caller's continuation
requestPermissionResponse(r, res) ==
    /\ r \in BagToSet(inflight)
    /\ r.kind \in {"geo_silent", "geo_prompt"}
    /\ inflight' = Recv(r)
    /\ currentPosition' = (res = "ok" \/ currentPosition)
    /\ storedPermission' =
         IF res = "ok" /\ r.kind = "geo_prompt" THEN TRUE
         ELSE IF res = "denied" THEN FALSE
         ELSE storedPermission
    /\ isTracking' = IF res = "ok" /\ r.origin = "restore" THEN TRUE ELSE isTracking
    /\ watches' = IF res = "ok" /\ r.origin = "restore"
                 THEN WatchesAfterStart(supported, isTracking, watches) ELSE watches
    /\ buttonText' =
         IF res # "ok" THEN "requesting_gps"
         ELSE IF r.origin = "init" /\ isOnShift /\ hasOrder THEN "end_shift"
         ELSE IF r.origin = "init" /\ isOnShift /\ isSearching THEN "searching"
         ELSE "start_shift"
    /\ disabled' = FALSE
    /\ UNCHANGED <<gameVars, supported, chanVars, zoneCheckInterval, intervalTimers, modalOpen,
                   events, searchTimers, emitTimers,
                 balance, resumeLogin, storeVars>>

GeoResponse ==
  \E r \in BagToSet(inflight), res \in {"ok", "denied", "timeout"} : requestPermissionResponse(r, res)

\* ---------------------------------------------------------------- SocketManager
Deliver(e) == events (-) SetToBag({e})

\* faulty variant: onOrderFound stores the order and leaves the search flag set
onOrderFoundStillSearching(e) ==
  /\ e \in BagToSet(events)
  /\ e.ev = "order_found"
  /\ events' = events (-) SetToBag({e})
  /\ currentOrder' = Order(e.oid, FALSE, "offered")
  /\ modalOpen' = TRUE
  /\ UNCHANGED <<isOnShift, isSearching, geoVars, chanVars, zoneCheckInterval, intervalTimers,
                 buttonText, disabled, inflight, searchTimers, emitTimers,
                 balance, resumeLogin, userId, now, restoreResult>>
  /\ save

\* onOrderFound with a valid data.order: the order is stored unconditionally,
\* the search flag is cleared and the order modal is shown
onOrderFound(e) ==
  /\ e \in BagToSet(events)
  /\ e.ev = "order_found"
  /\ events' = Deliver(e)
  /\ currentOrder' = Order(e.oid, FALSE, "offered")
  /\ isSearching' = FALSE
  /\ modalOpen' = TRUE
  /\ UNCHANGED <<isOnShift, geoVars, chanVars, zoneCheckInterval, intervalTimers, buttonText,
                 disabled, inflight, searchTimers, emitTimers,
                 balance, resumeLogin, userId, now, restoreResult>>
  /\ save

OrderFound == \E e \in BagToSet(events) : onOrderFound(e)

onNoOrdersFound ==
  \E e \in BagToSet(events) :
    /\ e.ev = "no_orders_found"
    /\ events' = Deliver(e)
    /\ isSearching' = FALSE
    /\ buttonText' = "end_shift"
    /\ disabled' = ButtonDisabled("end_shift")
    /\ UNCHANGED <<isOnShift, currentOrder, geoVars, chanVars, zoneCheckInterval, intervalTimers,
                   modalOpen, inflight, searchTimers, emitTimers,
                 balance, resumeLogin, userId, now, restoreResult>>
    /\ save

\* search_error arrives: SocketManager.initialize registers handlers for
\* search_started, search_progress, order_found and no_orders_found only, so
\* the event reaches the onAny logger and nothing else
searchErrorDelivered ==
  \E e \in BagToSet(events) :
    /\ e.ev = "search_error"
    /\ events' = Deliver(e)
    /\ UNCHANGED <<gameVars, geoVars, chanVars, zoneCheckInterval, intervalTimers, buttonText,
                   disabled, modalOpen, inflight, searchTimers, emitTimers,
                   balance, resumeLogin, storeVars>>

onSearchStarted ==
  \E e \in BagToSet(events) :
    /\ e.ev = "search_started"
    /\ events' = Deliver(e)
    /\ IF hasOrder
         THEN UNCHANGED <<buttonText, disabled>>
         ELSE buttonText' = "searching" /\ disabled' = ButtonDisabled("searching")
    /\ UNCHANGED <<gameVars, geoVars, chanVars, zoneCheckInterval, intervalTimers, modalOpen,
                   inflight, searchTimers, emitTimers,
                 balance, resumeLogin, storeVars>>

\* ---------------------------------------------------------------- OrderModal
\* the accept button: acceptOrder up to the fetch
ClickAccept ==
  /\ modalOpen
  /\ IF ~hasOrder
       THEN UNCHANGED inflight
       ELSE /\ Load < MaxLoad
            /\ inflight' = Send(Req("accept", "modal", currentOrder.id))
  /\ UNCHANGED <<gameVars, geoVars, chanVars, zoneCheckInterval, intervalTimers, buttonText,
                 disabled, modalOpen, events, searchTimers, emitTimers,
                 balance, resumeLogin, storeVars>>

\* acceptOrder after the fetch resolved; result.order is the accepted order
acceptOrderResponse(r, ok) ==
    /\ r \in BagToSet(inflight)
    /\ r.kind = "accept"
    /\ inflight' = Recv(r)
    /\ IF ok
         THEN /\ currentOrder' = Order(r.oid, FALSE, "active")
              /\ zoneCheckInterval' = TRUE
              /\ intervalTimers' = TimersAfterStart(zoneCheckInterval, intervalTimers)
              /\ buttonText' = "to_pickup"
              /\ modalOpen' = FALSE
         ELSE UNCHANGED <<currentOrder, zoneCheckInterval, intervalTimers, buttonText, modalOpen>>
    /\ UNCHANGED <<isOnShift, isSearching, geoVars, chanVars, disabled, events,
                   searchTimers, emitTimers,
                 balance, resumeLogin, userId, now, restoreResult>>
    /\ IF ok THEN save ELSE UNCHANGED storage

AcceptResponse ==
  \E r \in BagToSet(inflight), ok \in BOOLEAN : acceptOrderResponse(r, ok)

\* faulty variant: the declined order is dropped and the search is not resumed
closeDeclinedStaysIdle ==
  /\ currentOrder' = NoOrder
  /\ UNCHANGED <<logins, loggedIn, resumeLogin, isSearching, buttonText, disabled,
                 emitTimers>>

\* close(false) after the cancel call (or at once when no order is held):
\* the order is dropped and, on shift, the search restarts
closeDeclined ==
  /\ currentOrder' = NoOrder
  /\ IF isOnShift
       THEN startSearching
       ELSE UNCHANGED <<logins, loggedIn, resumeLogin, isSearching, buttonText, disabled,
                        emitTimers>>

\* the decline / close button: close() up to the cancel fetch
ClickDecline ==
  /\ modalOpen
  /\ modalOpen' = FALSE
  /\ IF hasOrder
       THEN /\ Load < MaxLoad
            /\ inflight' = Send(Req("cancel", "modal", 0))
            /\ UNCHANGED <<gameVars, logins, loggedIn, resumeLogin, buttonText, disabled,
                           emitTimers>>
       ELSE /\ Load < MaxLoad
            /\ closeDeclined
            /\ UNCHANGED <<isOnShift, inflight>>
  /\ UNCHANGED <<geoVars, srvSearch, firstSearch, zoneCheckInterval, intervalTimers, events,
                 searchTimers,
                 balance, userId, now, restoreResult>>
  /\ IF hasOrder THEN UNCHANGED storage ELSE save

\* the cancel call returned or failed: close() goes on either way
closeAfterCancel(r) ==
    /\ r \in BagToSet(inflight)
    /\ r.kind = "cancel"
    /\ inflight' = Recv(r)
    /\ closeDeclined
    /\ UNCHANGED <<isOnShift, geoVars, srvSearch, firstSearch, zoneCheckInterval, intervalTimers,
                   modalOpen, events, searchTimers,
                 balance, userId, now, restoreResult>>
    /\ save

CancelResponse ==
  \E r \in BagToSet(inflight) : closeAfterCancel(r)

\* ---------------------------------------------------------------- StateManager
\* faulty variant: the restored order's pickup_time is not consulted
restoreFromServerIgnoresPickupTime(r, ok, active) ==
  /\ r \in BagToSet(inflight)
  /\ r.kind = "status"
  /\ balance' = IF ok THEN "response" ELSE balance
  /\ IF ok /\ active # NoOrder
       THEN /\ currentOrder' = active
            /\ isOnShift' = TRUE
            /\ zoneCheckInterval' = TRUE
            /\ intervalTimers' = TimersAfterStart(zoneCheckInterval, intervalTimers)
            /\ buttonText' = "to_pickup"
            /\ disabled' = FALSE
            /\ inflight' = IF supported
                             THEN Recv(r) (+) SetToBag({Req(IF storedPermission
                                                             THEN "geo_silent"
                                                             ELSE "geo_prompt",
                                                           "restore", 0)})
                             ELSE Recv(r)
       ELSE /\ inflight' = Recv(r)
            /\ UNCHANGED <<currentOrder, isOnShift, zoneCheckInterval, intervalTimers, buttonText,
                           disabled>>
  /\ UNCHANGED <<isSearching, geoVars, chanVars, modalOpen, events, searchTimers,
                 emitTimers, resumeLogin, userId, now, restoreResult>>
  /\ IF ok /\ active # NoOrder THEN save ELSE UNCHANGED storage

\* restoreFromServer after GET /api/status resolved, and restoreState's
\* continuation (requestPermission(true), then startTracking)
restoreFromServer(r, ok, active) ==
  /\ r \in BagToSet(inflight)
  /\ r.kind = "status"
  /\ balance' = IF ok THEN "response" ELSE balance
  /\ IF ok /\ active # NoOrder
       THEN /\ currentOrder' = active
            /\ isOnShift' = TRUE
            /\ zoneCheckInterval' = TRUE
            /\ intervalTimers' = TimersAfterStart(zoneCheckInterval, intervalTimers)
            /\ buttonText' = IF active.pickup_time THEN "to_dropoff" ELSE "to_pickup"
            /\ disabled' = FALSE
            /\ inflight' = IF supported
                             THEN Recv(r) (+) SetToBag({Req(IF storedPermission
                                                             THEN "geo_silent"
                                                             ELSE "geo_prompt",
                                                           "restore", 0)})
                             ELSE Recv(r)
       ELSE /\ inflight' = Recv(r)
            /\ UNCHANGED <<currentOrder, isOnShift, zoneCheckInterval, intervalTimers, buttonText,
                           disabled>>
  /\ UNCHANGED <<isSearching, geoVars, chanVars, modalOpen, events, searchTimers,
                 emitTimers, resumeLogin, userId, now, restoreResult>>
  /\ IF ok /\ active # NoOrder THEN save ELSE UNCHANGED storage

StatusResponse ==
  \E r \in BagToSet(inflight), ok \in BOOLEAN,
     active \in {NoOrder} \cup {Order(i, pt, "active") : i \in OrderIds, pt \in BOOLEAN} :
    restoreFromServer(r, ok, active)

\* ---------------------------------------------------------------- session store
\* The session and its stored blob on their own: the setters, save / restore /
\* reset and the constructor of GameState, the restore() of the revision that
\* resets the shift, endShift of the single-file page, and the clock;
\* everything outside the session and the store stays as it is.
restVars == <<geoVars, zoneCheckInterval, intervalTimers, buttonText, disabled, modalOpen,
              inflight, events, searchTimers, emitTimers, chanVars,
              resumeLogin, balance>>

\* numeric ids handed to setUserId
UserIds == {1, 2}

\* orders handed to setCurrentOrder (null included)
StoreOrders == {NoOrder} \cup {Order(i, pt, "active") : i \in OrderIds, pt \in BOOLEAN}

\* Date.now() of restore() is at most this many hours after page load
MaxClock == 5

\* maxAge of restore(), in hours
maxAge == 4

\* state.userId || 1
UserIdOrDefault(u) == IF u = 0 THEN 1 ELSE u

setShiftStatus(status) ==
  /\ isOnShift' = status
  /\ restoreResult' = "none"
  /\ UNCHANGED <<isSearching, currentOrder, userId, now, restVars>>
  /\ save

setSearchingStatus(status) ==
  /\ isSearching' = status
  /\ restoreResult' = "none"
  /\ UNCHANGED <<isOnShift, currentOrder, userId, now, restVars>>
  /\ save

setCurrentOrder(order) ==
  /\ currentOrder' = order
  /\ restoreResult' = "none"
  /\ UNCHANGED <<isOnShift, isSearching, userId, now, restVars>>
  /\ save

setUserId(u) ==
  /\ userId' = u
  /\ storage' = Blob(isOnShift, isSearching, currentOrder, u, now)
  /\ restoreResult' = "none"
  /\ UNCHANGED <<gameVars, now, restVars>>

reset ==
  /\ isOnShift' = FALSE
  /\ isSearching' = FALSE
  /\ currentOrder' = NoOrder
  /\ userId' = 1
  /\ storage' = Blob(FALSE, FALSE, NoOrder, 1, now)
  /\ restoreResult' = "none"
  /\ UNCHANGED <<now, restVars>>

\* new GameState(): a page load; the blob of the previous page stays stored
GameStateNew ==
  /\ isOnShift' = FALSE
  /\ isSearching' = FALSE
  /\ currentOrder' = NoOrder
  /\ userId' = 1
  /\ restoreResult' = "none"
  /\ UNCHANGED <<storage, now, restVars>>

\* an hour passes
Tick ==
  /\ now < MaxClock
  /\ now' = now + 1
  /\ restoreResult' = "none"
  /\ UNCHANGED <<gameVars, userId, storage, restVars>>

\* restore() of the oldest GameState revision: the parsed blob replaces the
\* session as it is (no defaults); its catch block leaves the blob stored
restoreCopyingBlob ==
  /\ IF storage.kind = "absent"
       THEN /\ restoreResult' = "false"
            /\ UNCHANGED <<gameVars, userId, storage>>
       ELSE IF storage.kind = "garbage"
         THEN /\ restoreResult' = "false"
              /\ UNCHANGED <<gameVars, userId, storage>>
         ELSE IF storage.hasLastSaved /\ now - storage.lastSaved > maxAge
           THEN /\ storage' = NoBlob
                /\ restoreResult' = "false"
                /\ UNCHANGED <<gameVars, userId>>
           ELSE /\ isOnShift' = storage.isOnShift
                /\ isSearching' = storage.isSearching
                /\ currentOrder' = storage.currentOrder
                /\ userId' = storage.userId
                /\ restoreResult' = "true"
                /\ UNCHANGED storage
  /\ UNCHANGED <<now, restVars>>

\* restore() of the GameState revision that resets the shift on load: the
\* blob is copied as it is (no defaults), isOnShift and isSearching are then
\* set to false; its catch block leaves the blob stored
restoreResettingShift ==
  /\ IF storage.kind = "absent"
       THEN /\ restoreResult' = "false"
            /\ UNCHANGED <<gameVars, userId, storage>>
       ELSE IF storage.kind = "garbage"
         THEN /\ restoreResult' = "false"
              /\ UNCHANGED <<gameVars, userId, storage>>
         ELSE IF storage.hasLastSaved /\ now - storage.lastSaved > maxAge
           THEN /\ storage' = NoBlob
                /\ restoreResult' = "false"
                /\ UNCHANGED <<gameVars, userId>>
           ELSE /\ isOnShift' = FALSE
                /\ isSearching' = FALSE
                /\ currentOrder' = storage.currentOrder
                /\ userId' = storage.userId
                /\ restoreResult' = "true"
                /\ UNCHANGED storage
  /\ UNCHANGED <<now, restVars>>

\* endShift of the single-file page (game.js) after its fetch succeeded: the
\* fields are written directly, saveGameState() runs after the first and
\* after the second write, and stopTracking / updateShiftButton follow
gameEndShift ==
  /\ isOnShift' = FALSE
  /\ isSearching' = FALSE
  /\ currentOrder' = NoOrder
  /\ storage' = Blob(FALSE, FALSE, currentOrder, userId, now)
  /\ isTracking' = FALSE
  /\ watches' = WatchesAfterStop(isTracking, watches)
  /\ buttonText' = "start_shift"
  /\ disabled' = FALSE
  /\ restoreResult' = "none"
  /\ UNCHANGED <<userId, now, supported, storedPermission,
                 currentPosition, zoneCheckInterval, intervalTimers, modalOpen, inflight, events,
                 searchTimers, emitTimers, chanVars, resumeLogin, balance>>

\* faulty variant: a snapshot aged exactly maxAge counts as stale
restoreStaleAtCutoff ==
  /\ IF storage.kind = "absent"
       THEN /\ restoreResult' = "false"
            /\ UNCHANGED <<gameVars, userId, storage>>
       ELSE IF storage.kind = "garbage"
         THEN /\ storage' = NoBlob
              /\ restoreResult' = "false"
              /\ UNCHANGED <<gameVars, userId>>
         ELSE IF storage.hasLastSaved /\ now - storage.lastSaved >= maxAge
           THEN /\ storage' = NoBlob
                /\ restoreResult' = "false"
                /\ UNCHANGED <<gameVars, userId>>
           ELSE /\ isOnShift' = storage.isOnShift
                /\ isSearching' = storage.isSearching
                /\ currentOrder' = storage.currentOrder
                /\ userId' = UserIdOrDefault(storage.userId)
                /\ restoreResult' = "true"
                /\ UNCHANGED storage
  /\ UNCHANGED <<now, restVars>>

\* restore(): nothing stored -> false; a parse failure -> the blob is removed,
\* false; timeDiff = Date.now() - state.lastSaved, and timeDiff > maxAge ->
\* the blob is removed, false (without lastSaved timeDiff is NaN and the
\* comparison is false); otherwise the four fields are taken from the blob
\* with their defaults and true is returned
restore ==
  /\ IF storage.kind = "absent"
       THEN /\ restoreResult' = "false"
            /\ UNCHANGED <<gameVars, userId, storage>>
       ELSE IF storage.kind = "garbage"
         THEN /\ storage' = NoBlob
              /\ restoreResult' = "false"
              /\ UNCHANGED <<gameVars, userId>>
         ELSE IF storage.hasLastSaved /\ now - storage.lastSaved > maxAge
           THEN /\ storage' = NoBlob
                /\ restoreResult' = "false"
                /\ UNCHANGED <<gameVars, userId>>
           ELSE /\ isOnShift' = storage.isOnShift
                /\ isSearching' = storage.isSearching
                /\ currentOrder' = storage.currentOrder
                /\ userId' = UserIdOrDefault(storage.userId)
                /\ restoreResult' = "true"
                /\ UNCHANGED storage
  /\ UNCHANGED <<now, restVars>>

\* what localStorage may hold when the page loads besides a blob written by
\* save(): nothing, text that does not parse, an object without lastSaved
InitialStorage ==
  {NoBlob, Garbage,
   BlobWithoutLastSaved(TRUE, FALSE, Order(1, FALSE, "active"), 2),
   BlobWithoutLastSaved(FALSE, FALSE, NoOrder, 0)}

StoreInit ==
  /\ isOnShift = FALSE
  /\ isSearching = FALSE
  /\ currentOrder = NoOrder
  /\ userId = 1
  /\ storage \in InitialStorage
  /\ now = 0
  /\ restoreResult = "none"
  /\ supported = TRUE
  /\ storedPermission = FALSE
  /\ currentPosition = FALSE
  /\ isTracking = FALSE
  /\ zoneCheckInterval = FALSE
  /\ buttonText = "requesting_gps"
  /\ disabled = FALSE
  /\ modalOpen = FALSE
  /\ inflight = EmptyBag
  /\ events = EmptyBag
  /\ searchTimers = 0
  /\ emitTimers = 0
  /\ srvSearch = "idle"
  /\ logins = 0
  /\ loggedIn = FALSE
  /\ watches = 0
  /\ intervalTimers = 0
  /\ firstSearch = FALSE
  /\ balance = "page"
  /\ resumeLogin = "none"

StoreNext ==
  \/ \E status \in BOOLEAN : setShiftStatus(status)
  \/ \E status \in BOOLEAN : setSearchingStatus(status)
  \/ \E order \in StoreOrders : setCurrentOrder(order)
  \/ \E u \in UserIds : setUserId(u)
  \/ reset
  \/ GameStateNew
  \/ Tick
  \/ restore
  \/ restoreCopyingBlob
  \/ restoreResettingShift
  \/ gameEndShift

StoreSpec == StoreInit /\ [][StoreNext]_vars

\* ---------------------------------------------------------------- backend
\* The backend answers start_order_search with search_started and ends the
\* search with order_found or no_orders_found; events travel asynchronously.
ServerSearchStarted ==
  /\ srvSearch = "started"
  /\ Load < MaxLoad
  /\ srvSearch' = "running"
  /\ events' = events (+) SetToBag({Evt("search_started", 0)})
  /\ UNCHANGED <<gameVars, geoVars, logins, loggedIn, firstSearch, zoneCheckInterval, intervalTimers,
                 buttonText, disabled, modalOpen, inflight, searchTimers, emitTimers,
                 balance, resumeLogin, storeVars>>

ServerOrderFound ==
  \E i \in OrderIds :
    /\ srvSearch = "running"
    /\ Load < MaxLoad
    /\ srvSearch' = "idle"
    /\ events' = events (+) SetToBag({Evt("order_found", i)})
    /\ UNCHANGED <<gameVars, geoVars, logins, loggedIn, firstSearch, zoneCheckInterval, intervalTimers,
                   buttonText, disabled, modalOpen, inflight, searchTimers, emitTimers,
                 balance, resumeLogin, storeVars>>

ServerNoOrders ==
  /\ srvSearch = "running"
  /\ Load < MaxLoad
  /\ srvSearch' = "idle"
  /\ events' = events (+) SetToBag({Evt("no_orders_found", 0)})
  /\ UNCHANGED <<gameVars, geoVars, logins, loggedIn, firstSearch, zoneCheckInterval, intervalTimers,
                 buttonText, disabled, modalOpen, inflight, searchTimers, emitTimers,
                 balance, resumeLogin, storeVars>>

ServerSearchError ==
  /\ srvSearch = "running"
  /\ Load < MaxLoad
  /\ srvSearch' = "idle"
  /\ events' = events (+) SetToBag({Evt("search_error", 0)})
  /\ UNCHANGED <<gameVars, geoVars, logins, loggedIn, firstSearch, zoneCheckInterval, intervalTimers,
                 buttonText, disabled, modalOpen, inflight, searchTimers, emitTimers,
                 balance, resumeLogin, storeVars>>

\* ---------------------------------------------------------------- specification
Next ==
  \/ ClickRequestGPS
  \/ ClickStartShift
  \/ StartShiftResponse
  \/ SearchTimerFires
  \/ EmitTimerFires
  \/ ClickStopSearching
  \/ ClickEndShift
  \/ EndShiftResponse
  \/ ClickPickup
  \/ ClickDeliver
  \/ ClickNavigate
  \/ PickupResponse
  \/ DeliverResponse
  \/ ZoneTick
  \/ ZoneResponse
  \/ GeoResponse
  \/ OrderFound
  \/ onNoOrdersFound
  \/ onSearchStarted
  \/ ClickAccept
  \/ AcceptResponse
  \/ ClickDecline
  \/ CancelResponse
  \/ StatusResponse
  \/ ServerSearchStarted
  \/ ServerOrderFound
  \/ ServerNoOrders
  \/ ServerSearchError
  \/ searchErrorDelivered

Spec == Init /\ [][Next]_vars

\* the page together with direct invocations of shiftManager.endShift()
MethodNext == Next \/ EndShiftHeld

MethodSpec == Init /\ [][MethodNext]_vars

\* faulty variant: stopping without a watch starts one
stopTrackingTogglesWatch ==
  /\ isTracking' = ~isTracking
  /\ watches' = IF isTracking THEN watches - 1 ELSE watches + 1
  /\ UNCHANGED <<gameVars, supported, storedPermission, currentPosition,
                 zoneCheckInterval, intervalTimers, buttonText, disabled, modalOpen, inflight,
                 events, searchTimers, emitTimers, chanVars, resumeLogin,
                 balance, storeVars>>

\* geoManager.stopTracking() called on its own: with a watch (watchId !==
\* null) the watch is cleared and watchId, isTracking reset; without one
\* nothing is done
stopTracking ==
  /\ IF isTracking THEN isTracking' = FALSE ELSE UNCHANGED isTracking
  /\ watches' = WatchesAfterStop(isTracking, watches)
  /\ UNCHANGED <<gameVars, supported, storedPermission, currentPosition,
                 zoneCheckInterval, intervalTimers, buttonText, disabled, modalOpen, inflight,
                 events, searchTimers, emitTimers, chanVars, resumeLogin,
                 balance, storeVars>>

\* shiftManager.stopZoneChecking() called on its own: a running poll timer
\* is cleared and zoneCheckInterval set to null; without one nothing is done
stopZoneChecking ==
  /\ IF zoneCheckInterval THEN zoneCheckInterval' = FALSE
                           ELSE UNCHANGED zoneCheckInterval
  /\ intervalTimers' = TimersAfterStop(zoneCheckInterval, intervalTimers)
  /\ UNCHANGED <<gameVars, geoVars, buttonText, disabled, modalOpen, inflight,
                 events, searchTimers, emitTimers, chanVars, resumeLogin,
                 balance, storeVars>>

\* faulty variant: the running poll timer is not cleared before a new one
startZoneCheckingKeepsOldTimer ==
  /\ zoneCheckInterval' = TRUE
  /\ intervalTimers' = intervalTimers + 1
  /\ UNCHANGED <<gameVars, geoVars, buttonText, disabled, modalOpen, inflight,
                 events, searchTimers, emitTimers, chanVars, resumeLogin,
                 balance, storeVars>>

\* shiftManager.startZoneChecking() called on its own: stopZoneChecking(),
\* then setInterval(checkZones, 2000) stored in zoneCheckInterval
startZoneChecking ==
  /\ zoneCheckInterval' = TRUE
  /\ intervalTimers' = TimersAfterStart(zoneCheckInterval, intervalTimers)
  /\ UNCHANGED <<gameVars, geoVars, buttonText, disabled, modalOpen, inflight,
                 events, searchTimers, emitTimers, chanVars, resumeLogin,
                 balance, storeVars>>

\* geoManager.startTracking(callback) called on its own: false when
\* unsupported, true at once when isTracking, else watchPosition is
\* registered and isTracking set
startTracking ==
  /\ isTracking' = (isTracking \/ supported)
  /\ watches' = WatchesAfterStart(supported, isTracking, watches)
  /\ UNCHANGED <<gameVars, supported, storedPermission, currentPosition,
                 zoneCheckInterval, intervalTimers, buttonText, disabled,
                 modalOpen, inflight, events, searchTimers, emitTimers, chanVars,
                 resumeLogin, balance, storeVars>>

\* the page with the start and stop methods callable at any time
ActivityNext ==
  Next \/ stopTracking \/ stopZoneChecking \/ startZoneChecking \/ startTracking

ActivitySpec == Init /\ [][ActivityNext]_vars

\* startSearching() of the ShiftManager revision that logs in only in
\* startShift: setSearchingStatus(true), updateShiftButton(SEARCHING) and
\* socketManager.startOrderSearch(5) at once; no user_login, no timer
startSearchingLoginOnce ==
  /\ isSearching' = TRUE
  /\ buttonText' = "searching"
  /\ disabled' = ButtonDisabled("searching")
  /\ srvSearch' = "started"
  /\ firstSearch' = FALSE
  /\ logins' = 0
  /\ resumeLogin' = "none"
  /\ UNCHANGED <<loggedIn, emitTimers>>

\* the delayed startSearching of startShift / deliverOrder fires (that revision)
SearchTimerFiresLoginOnce ==
  /\ searchTimers > 0
  /\ searchTimers' = searchTimers - 1
  /\ startSearchingLoginOnce
  /\ UNCHANGED <<isOnShift, currentOrder, geoVars, zoneCheckInterval, intervalTimers, modalOpen,
                 inflight, events, balance, userId, now, restoreResult>>
  /\ save

\* OrderModal.close(false) going on after the cancel call, with that revision
\* as its shiftManager
closeDeclinedLoginOnce ==
  /\ currentOrder' = NoOrder
  /\ IF isOnShift
       THEN startSearchingLoginOnce
       ELSE UNCHANGED <<logins, loggedIn, resumeLogin, isSearching, buttonText,
                        disabled, emitTimers, srvSearch, firstSearch>>

ClickDeclineLoginOnce ==
  /\ modalOpen
  /\ modalOpen' = FALSE
  /\ IF hasOrder
       THEN /\ Load < MaxLoad
            /\ inflight' = Send(Req("cancel", "modal", 0))
            /\ UNCHANGED <<gameVars, logins, loggedIn, resumeLogin, buttonText,
                           disabled, emitTimers, srvSearch, firstSearch>>
       ELSE /\ closeDeclinedLoginOnce
            /\ UNCHANGED <<isOnShift, inflight>>
  /\ UNCHANGED <<geoVars, zoneCheckInterval, intervalTimers, events, searchTimers,
                 balance, userId, now, restoreResult>>
  /\ IF hasOrder THEN UNCHANGED storage ELSE save

closeAfterCancelLoginOnce(r) ==
    /\ r \in BagToSet(inflight)
    /\ r.kind = "cancel"
    /\ inflight' = Recv(r)
    /\ closeDeclinedLoginOnce
    /\ UNCHANGED <<isOnShift, geoVars, zoneCheckInterval, intervalTimers, modalOpen, events,
                   searchTimers, balance, userId, now, restoreResult>>
    /\ save

CancelResponseLoginOnce ==
  \E r \in BagToSet(inflight) : closeAfterCancelLoginOnce(r)

\* the page with the ShiftManager revision that logs in only in startShift
LoginOnceNext ==
  \/ ClickRequestGPS
  \/ ClickStartShift
  \/ StartShiftResponse
  \/ SearchTimerFiresLoginOnce
  \/ ClickStopSearching
  \/ ClickEndShift
  \/ EndShiftResponse
  \/ ClickPickup
  \/ ClickDeliver
  \/ ClickNavigate
  \/ PickupResponse
  \/ DeliverResponse
  \/ ZoneTick
  \/ ZoneResponse
  \/ GeoResponse
  \/ OrderFound
  \/ onNoOrdersFound
  \/ onSearchStarted
  \/ ClickAccept
  \/ AcceptResponse
  \/ ClickDeclineLoginOnce
  \/ CancelResponseLoginOnce
  \/ StatusResponse
  \/ ServerSearchStarted
  \/ ServerOrderFound
  \/ ServerNoOrders
  \/ ServerSearchError
  \/ searchErrorDelivered

LoginOnceSpec == Init /\ [][LoginOnceNext]_vars

\* the page with the two stop methods callable at any time
StopNext == Next \/ stopTracking \/ stopZoneChecking

StopSpec == Init /\ [][StopNext]_vars

\* timers fire and the backend answers
FairSpec ==
  /\ Spec
  /\ WF_vars(SearchTimerFires)
  /\ WF_vars(EmitTimerFires)

\* a poll result that allows both steps
AllZones ==
  [in_pickup_zone |-> TRUE, can_pickup |-> TRUE,
   in_dropoff_zone |-> TRUE, can_deliver |-> TRUE]

\* Steps of a courier who works the order through and of a backend and a
\* device that answer favourably
GrantPosition == \E r \in BagToSet(inflight) : requestPermissionResponse(r, "ok")
ShiftStarted == \E r \in BagToSet(inflight) : startShiftResponse(r, TRUE)
InZone == \E r \in BagToSet(inflight) : checkZonesResponse(r, TRUE, AllZones)
PickedUp == \E r \in BagToSet(inflight) : pickupOrderResponse(r, TRUE)
Delivered == \E r \in BagToSet(inflight) : deliverOrderResponse(r, TRUE)

\* the page with a courier who keeps using the primary button and whose
\* requests are eventually answered favourably
CoopSpec ==
  /\ Spec
  /\ WF_vars(SearchTimerFires)
  /\ WF_vars(EmitTimerFires)
  /\ WF_vars(StatusResponse)
  /\ SF_vars(ClickRequestGPS)
  /\ SF_vars(GrantPosition)
  /\ SF_vars(ClickStartShift)
  /\ SF_vars(ShiftStarted)
  /\ SF_vars(ClickStopSearching)
  /\ SF_vars(ZoneTick /\ inflight' # inflight)
  /\ SF_vars(InZone)
  /\ SF_vars(ClickPickup)
  /\ SF_vars(PickedUp)
  /\ SF_vars(ClickDeliver)
  /\ SF_vars(Delivered)
  /\ SF_vars(ClickDecline)
  /\ SF_vars(CancelResponse)

\* a handler ends in its error path: the position request is denied or times
\* out, or a shift, pickup, deliver or accept call fails
ErrorOutcome ==
  \E r \in BagToSet(inflight) :
    \/ requestPermissionResponse(r, "denied")
    \/ requestPermissionResponse(r, "timeout")
    \/ startShiftResponse(r, FALSE)
    \/ endShiftResponse(r, FALSE)
    \/ pickupOrderResponse(r, FALSE)
    \/ deliverOrderResponse(r, FALSE)
    \/ acceptOrderResponse(r, FALSE)

\* a permission request started by a click on the primary button is pending
ClickGeoPending ==
  \E q \in BagToSet(inflight) :
    q.kind \in {"geo_silent", "geo_prompt"} /\ q.origin = "click"

TypeOK ==
  /\ isOnShift \in BOOLEAN /\ isSearching \in BOOLEAN
  /\ buttonText \in ButtonStates
  /\ Load <= MaxLoad
  /\ logins \in 0..MaxLogins
  /\ loggedIn \in BOOLEAN
  /\ watches \in 0..1
  /\ intervalTimers \in 0..1
  /\ ~firstSearch => logins = 0
  /\ balance \in {"page", "response"}
  /\ resumeLogin \in {"none", "pending", "login"}
  /\ userId \in UserIds \cup {0}
  /\ storage.kind \in {"absent", "garbage", "object"}
  /\ now \in 0..MaxClock
  /\ restoreResult \in {"none", "true", "false"}

\* ---------------------------------------------------------------- claims
\* C1: in every reachable state a session that holds an order is on shift
\* (currentOrder != null implies isOnShift), whatever the interleaving of
\* clicks, REST completions, realtime events, restore and timers.
C1_OrderImpliesOnShift == hasOrder => isOnShift

\* C2: in every reachable state the session is never both searching and
\* holding an order.
C2_NotSearchingWhileHolding == ~(isSearching /\ hasOrder)

\* C3: in every reachable state isSearching implies isOnShift, also when a
\* delayed startSearching fires after an endShift that succeeded in between.
C3_SearchingImpliesOnShift == isSearching => isOnShift

\* C4: first-order-wins: an order_found event that arrives while an order is
\* held leaves currentOrder (id and pickup_time included) unchanged.
C4_FirstOrderWins ==
  [][\A e \in BagToSet(events) :
       (hasOrder /\ onOrderFound(e)) => currentOrder' = currentOrder]_vars

C6_ExactlyOneLogin ==
  [][(firstSearch /\ ~firstSearch') => logins = 1]_vars

\* C7: after a successful start_shift response the search starts with no
\* further user action: while the delay timer of startShift is pending,
\* eventually isSearching is true, and eventually start_order_search is emitted.
C7_SearchStartsAfterShift ==
  /\ (firstSearch /\ searchTimers > 0) ~> isSearching
  /\ firstSearch ~> (~firstSearch /\ srvSearch = "started")

\* the search of a started shift is on: the flag is set and the backend has
\* the start_order_search
C7_Witness ==
  /\ isOnShift /\ isSearching
  /\ srvSearch = "started"
  /\ ~firstSearch
  /\ searchTimers = 0 /\ emitTimers = 0

\* C8: after a poll result is applied the state is a function of the held
\* order's pickup_time and the zones alone: without pickup_time AT_PICKUP iff
\* in_pickup_zone and can_pickup, else TO_PICKUP; with pickup_time AT_DROPOFF
\* iff in_dropoff_zone and can_deliver, else TO_DROPOFF.
C8_ZoneDerivation ==
  [][\A r \in {q \in BagToSet(inflight) : q.kind = "position" /\ hasOrder} :
       \A zones \in ZoneResults :
       checkZonesResponse(r, TRUE, zones) =>
         /\ ~currentOrder.pickup_time =>
              /\ (zones.in_pickup_zone /\ zones.can_pickup) => buttonText' = "at_pickup"
              /\ ~(zones.in_pickup_zone /\ zones.can_pickup) => buttonText' = "to_pickup"
         /\ currentOrder.pickup_time =>
              /\ (zones.in_dropoff_zone /\ zones.can_deliver) => buttonText' = "at_dropoff"
              /\ ~(zones.in_dropoff_zone /\ zones.can_deliver) => buttonText' = "to_dropoff"]_vars

\* a poll moved the controller to AT_DROPOFF for an order that was picked up
C8_Witness ==
  /\ hasOrder
  /\ currentOrder.pickup_time
  /\ buttonText = "at_dropoff"

\* C9: a zone-poll response that completes after the held order was cleared
\* or replaced since the request was sent changes neither the controller
\* state nor the primary button.
C9_StalePollIgnored ==
  [][\A r \in BagToSet(inflight), ok \in BOOLEAN, zones \in ZoneResults :
       (r.oid # currentOrder.id /\ checkZonesResponse(r, ok, zones)) =>
         UNCHANGED <<buttonText, disabled>>]_vars

\* C10: the zone-poll timer runs only while an order is held.
C10_PollingOnlyWithOrder == zoneCheckInterval => hasOrder

\* C11: a zone-poll tick that fires while no order is held, or while no
\* position is known, is a no-op: no /api/position request is sent and
\* neither the session state nor the primary button changes.
C11_IdleTickIsNoOp ==
  [][((~hasOrder \/ ~currentPosition) /\ ZoneTick) => UNCHANGED vars]_vars

\* the interval is running on a shift with nothing held and nothing pending
C11_Witness ==
  /\ zoneCheckInterval
  /\ ~hasOrder
  /\ isOnShift
  /\ ENABLED ZoneTick
  /\ inflight = EmptyBag

\* C12: when the deliver call fails (success:false or a transport error) the
\* held order stays set and unchanged, the balance is not updated, zone
\* polling keeps its timer, no search is scheduled or started, and the
\* primary button keeps its caption (deliver).
C12_FailedDeliverCommitsNothing ==
  [][\A r \in BagToSet(inflight) :
       deliverOrderResponse(r, FALSE) =>
         /\ UNCHANGED <<currentOrder, balance, zoneCheckInterval, searchTimers,
                        emitTimers, isSearching, buttonText, disabled>>
         /\ hasOrder => hasOrder'
         /\ buttonText = "at_dropoff" => buttonText' = "at_dropoff"]_vars

\* a deliver call is pending for a picked-up order at the drop-off, the poll
\* timer runs and the balance is the one the page was rendered with
C12_Witness ==
  /\ hasOrder /\ currentOrder.pickup_time
  /\ buttonText = "at_dropoff"
  /\ zoneCheckInterval
  /\ balance = "page"
  /\ searchTimers = 0 /\ ~isSearching
  /\ Req("deliver", "click", 0) \in BagToSet(inflight)

\* C13: a successful deliver call clears the order, stops the zone-poll timer
\* and schedules the search, and searching resumes with no user_login emitted
\* between the deliver response and the start_order_search that follows it.
C13_ResumeWithoutLogin ==
  /\ [][\A r \in BagToSet(inflight) :
          deliverOrderResponse(r, TRUE) =>
            /\ currentOrder' = NoOrder
            /\ ~zoneCheckInterval'
            /\ searchTimers' = searchTimers + 1]_vars
  /\ [][(resumeLogin # "none" /\ resumeLogin' = "none") => resumeLogin = "pending"]_vars

\* C14: when endShift is invoked while an order is held and the user declines
\* the confirmation, no /api/stop_shift request is sent and isOnShift,
\* isSearching, currentOrder, position tracking and zone polling are unchanged.
C14_DeclinedEndShiftIsNoOp ==
  [][(hasOrder /\ endShift(FALSE)) =>
       UNCHANGED <<inflight, isOnShift, isSearching, currentOrder, isTracking,
                   zoneCheckInterval>>]_vars

\* an order is held on a shift with tracking and polling on and no request
\* pending: the state in which endShift asks for the confirmation
C14_Witness ==
  /\ hasOrder /\ currentOrder.status = "active"
  /\ isOnShift /\ isTracking /\ zoneCheckInterval
  /\ inflight = EmptyBag
  /\ ENABLED EndShiftHeld

\* C15: after a successful stop_shift call isOnShift, isSearching are false,
\* currentOrder is null, position tracking and the zone-poll timer are stopped
\* and the controller state is START_SHIFT.
C15_EndShiftClearsSession ==
  [][\A r \in BagToSet(inflight) :
       endShiftResponse(r, TRUE) =>
         /\ ~isOnShift' /\ ~isSearching' /\ currentOrder' = NoOrder
         /\ ~isTracking' /\ ~zoneCheckInterval'
         /\ buttonText' = "start_shift" /\ ~disabled']_vars

\* a shift that was started has been ended again: everything is cleared
C15_Witness ==
  /\ firstSearch
  /\ ~isOnShift /\ ~isSearching /\ ~hasOrder
  /\ ~isTracking /\ ~zoneCheckInterval
  /\ buttonText = "start_shift"

\* C16: a failed shift call commits nothing: when /api/start_shift or
\* /api/stop_shift answers non-2xx or fails in transport, isOnShift,
\* isSearching and currentOrder keep their values, tracking and zone polling
\* are neither started nor stopped, no user_login is emitted and no delayed
\* search is scheduled.
C16_FailedShiftCallCommitsNothing ==
  [][\A r \in BagToSet(inflight) :
       (startShiftResponse(r, FALSE) \/ endShiftResponse(r, FALSE)) =>
         UNCHANGED <<isOnShift, isSearching, currentOrder, isTracking,
                     zoneCheckInterval, logins, firstSearch, resumeLogin,
                     searchTimers, emitTimers, srvSearch>>]_vars

\* a start_shift call is pending off shift, with nothing started yet
C16_Witness ==
  /\ Req("start_shift", "click", 0) \in BagToSet(inflight)
  /\ ~isOnShift /\ ~isTracking /\ ~zoneCheckInterval
  /\ searchTimers = 0 /\ ~firstSearch

\* C17: after a successful pickup call the held order has pickup_time set and
\* the controller state is TO_DROPOFF; the session holds an order and its
\* shift flag is as it was.
C17_PickupSetsPickupTime ==
  [][\A r \in BagToSet(inflight) :
       pickupOrderResponse(r, TRUE) =>
         /\ hasOrder' /\ currentOrder'.pickup_time
         /\ buttonText' = "to_dropoff" /\ ~disabled'
         /\ isOnShift' = isOnShift]_vars

\* a picked-up order is held on shift on the way to the drop-off, in a page
\* session that restored nothing (the balance is still the rendered one)
C17_Witness ==
  /\ hasOrder /\ currentOrder.pickup_time
  /\ buttonText = "to_dropoff"
  /\ isOnShift
  /\ balance = "page"

\* C18: pickup_time of a held order is set only by a successful pickup call
\* (or comes with the order the server restores): when the pickup call fails,
\* currentOrder is unchanged, pickup_time still unset, and the controller
\* stays where it was.
C18_FailedPickupKeepsOrder ==
  /\ [][\A r \in BagToSet(inflight) :
          pickupOrderResponse(r, FALSE) =>
            UNCHANGED <<currentOrder, buttonText, disabled, isOnShift, isSearching>>]_vars
  /\ [][(~currentOrder.pickup_time /\ currentOrder'.pickup_time) =>
          \E r \in BagToSet(inflight) :
            \/ pickupOrderResponse(r, TRUE)
            \/ \E i \in OrderIds : restoreFromServer(r, TRUE, Order(i, TRUE, "active"))]_vars

\* a pickup call is pending for an accepted order that is not picked up yet
C18_Witness ==
  /\ hasOrder /\ ~currentOrder.pickup_time /\ currentOrder.status = "active"
  /\ buttonText = "at_pickup"
  /\ Req("pickup", "click", currentOrder.id) \in BagToSet(inflight)

\* C19: after a successful accept call for the offered order that is held,
\* currentOrder is the accepted order, isSearching is false, no new search is
\* started or scheduled, and zone polling is running; after a failed accept
\* call currentOrder is unchanged.
C19_AcceptPromotesOrder ==
  /\ [][\A r \in BagToSet(inflight) :
          (currentOrder = Order(r.oid, FALSE, "offered") /\ acceptOrderResponse(r, TRUE)) =>
            /\ currentOrder' = Order(r.oid, FALSE, "active")
            /\ ~isSearching'
            /\ UNCHANGED <<searchTimers, emitTimers, srvSearch>>
            /\ zoneCheckInterval']_vars
  /\ [][\A r \in BagToSet(inflight) :
          acceptOrderResponse(r, FALSE) => UNCHANGED currentOrder]_vars

PostStartShift == {"searching", "to_pickup", "at_pickup", "to_dropoff", "at_dropoff"}

C21_EndShiftReachable ==
  /\ (buttonText \in PostStartShift) ~> (buttonText = "end_shift")
  /\ [][\A r \in BagToSet(inflight) :
          endShiftResponse(r, TRUE) => buttonText' = "start_shift"]_vars

\* C22: UNSUPPORTED is a terminal sink: the button shows UNSUPPORTED only in
\* a browser without geolocation, and once it shows UNSUPPORTED no later
\* step (click, realtime event, server restore) gives it another caption.
C22_UnsupportedIsSink ==
  /\ [](buttonText = "UNSUPPORTED" => ~supported)
  /\ [][buttonText = "UNSUPPORTED" => buttonText' = "UNSUPPORTED"]_vars

\* C23: with no confirmed device position a click on the primary button only
\* requests permission: the click sends nothing but the position request,
\* a granted request shows START_SHIFT, a denied one shows REQUESTING_GPS,
\* and neither the click nor the answer changes isOnShift, isSearching or
\* currentOrder or sends a shift call.
C23_ClickOnlyRequestsPermission ==
  /\ [][((~storedPermission \/ ~currentPosition) /\ ClickRequestGPS) =>
          /\ UNCHANGED gameVars
          /\ \/ inflight' = inflight
             \/ \E k \in {"geo_silent", "geo_prompt"} :
                  inflight' = Send(Req(k, "click", 0))]_vars
  /\ [][\A r \in {q \in BagToSet(inflight) : q.origin = "click"} :
          \A res \in {"ok", "denied"} :
            requestPermissionResponse(r, res) =>
              /\ buttonText' = (IF res = "ok" THEN "start_shift" ELSE "requesting_gps")
              /\ ~disabled'
              /\ UNCHANGED gameVars
              /\ inflight' = Recv(r)]_vars

C23_Witness ==
  /\ Req("geo_prompt", "click", 0) \in BagToSet(inflight)
  /\ buttonText = "REQUESTING_GPS_ACTIVE"
  /\ ~currentPosition /\ ~storedPermission
  /\ ~isOnShift /\ ~hasOrder

C25_RoundTrip ==
  [][(/\ storage.kind = "object" /\ storage.hasLastSaved
      /\ storage.userId \in UserIds
      /\ now - storage.lastSaved <= maxAge
      /\ (restore \/ restoreResettingShift)) =>
        /\ restoreResult' = "true"
        /\ isOnShift' = storage.isOnShift
        /\ isSearching' = storage.isSearching
        /\ currentOrder' = storage.currentOrder
        /\ userId' = storage.userId]_vars

\* C26: staleness cutoff: restore() on a snapshot saved more than maxAge
\* hours before now returns false, removes the blob and leaves the session
\* fields as they were; on a snapshot aged maxAge hours or less it returns
\* true and the session holds the snapshot's fields.
C26_StalenessCutoff ==
  [][(storage.kind = "object" /\ storage.hasLastSaved /\ restore) =>
       IF now - storage.lastSaved > maxAge
         THEN /\ restoreResult' = "false"
              /\ storage' = NoBlob
              /\ UNCHANGED <<gameVars, userId>>
         ELSE /\ restoreResult' = "true"
              /\ isOnShift' = storage.isOnShift
              /\ isSearching' = storage.isSearching
              /\ currentOrder' = storage.currentOrder
              /\ userId' = UserIdOrDefault(storage.userId)
              /\ UNCHANGED storage]_vars

\* a snapshot aged exactly maxAge hours has just been restored
C26_Witness ==
  /\ restoreResult = "true"
  /\ storage.kind = "object" /\ storage.hasLastSaved
  /\ now - storage.lastSaved = maxAge
  /\ isOnShift
  /\ currentOrder # NoOrder

\* a snapshot older than maxAge hours is in storage when the page loads
C26_StaleStored ==
  /\ storage.kind = "object" /\ storage.hasLastSaved
  /\ now - storage.lastSaved > maxAge
  /\ ~isOnShift /\ currentOrder = NoOrder
  /\ storage.isOnShift

\* C27: a corrupt blob is discarded, never partially repaired: when the
\* stored blob fails to parse or lacks lastSaved, restore() returns false,
\* removes the blob and takes no session field from it.
C27_CorruptDiscarded ==
  [][(/\ \/ storage.kind = "garbage"
         \/ storage.kind = "object" /\ ~storage.hasLastSaved
      /\ (restore \/ restoreCopyingBlob)) =>
        /\ restoreResult' = "false"
        /\ storage' = NoBlob
        /\ UNCHANGED <<gameVars, userId>>]_vars

\* the stored snapshot holds the in-memory session fields
Persisted ==
  /\ storage.kind = "object"
  /\ storage.isOnShift = isOnShift
  /\ storage.isSearching = isSearching
  /\ storage.currentOrder = currentOrder
  /\ storage.userId = userId

\* C28: the session is persisted after every mutation: whenever an
\* operation that changed a session field has finished, the stored
\* snapshot's isOnShift, isSearching, currentOrder and userId equal the
\* in-memory ones (constructing a new GameState on page load is not a
\* mutation of the session).
C28_PersistedAfterMutation ==
  [][(<<gameVars, userId>>' # <<gameVars, userId>> /\ ~GameStateNew) => Persisted']_vars

\* C29: stopping is idempotent: stopTracking leaves no watch and
\* stopZoneChecking no poll timer, and a call made when none is active
\* changes nothing, so that stop followed by stop equals a single stop.
C29_StopIdempotent ==
  /\ [][stopTracking => (~isTracking' /\ (~isTracking => UNCHANGED vars))]_vars
  /\ [][stopZoneChecking =>
          (~zoneCheckInterval' /\ (~zoneCheckInterval => UNCHANGED vars))]_vars

\* on a shift with an order, both the watch and the poll timer have been
\* stopped; either stop can be called again
C29_Witness ==
  /\ supported /\ isOnShift /\ hasOrder
  /\ ~isTracking /\ ~zoneCheckInterval
  /\ ENABLED stopTracking /\ ENABLED stopZoneChecking

\* C30: the previously-granted flag tracks the last permission outcome:
\* after requestPermission resolves with a position the stored flag is
\* true, and after it rejects because permission was denied it is false.
C30_FlagTracksLastOutcome ==
  [][\A r \in BagToSet(inflight) :
       /\ requestPermissionResponse(r, "ok") => storedPermission'
       /\ requestPermissionResponse(r, "denied") => ~storedPermission']_vars

\* C31: every inbound search-termination event is handled: when
\* no_orders_found or search_error is delivered while the session is on a
\* shift and searching, isSearching becomes false, isOnShift stays true and
\* the button shows END_SHIFT.
C31_SearchTerminationHandled ==
  [][(isOnShift /\ isSearching /\ (onNoOrdersFound \/ searchErrorDelivered)) =>
       (~isSearching' /\ isOnShift' /\ buttonText' = "end_shift")]_vars

\* the restoreState continuation ran: its requestPermission(true) was called
RestoreRequest(q) ==
  q.kind \in {"geo_silent", "geo_prompt"} /\ q.origin = "restore"

\* C32: server-side session restore: when GET /api/status returns an
\* active_order, afterwards currentOrder is that order, isOnShift is true,
\* zone polling runs, the button shows TO_DROPOFF if the order has
\* pickup_time and TO_PICKUP otherwise, and restoreFromServer returns true
\* (restoreState goes on to request the position); when the response is not
\* ok or has no active_order it returns false (restoreState does nothing
\* more) and isOnShift, isSearching and currentOrder are unchanged.
C32_ServerRestore ==
  [][\A r \in BagToSet(inflight), ok \in BOOLEAN,
        active \in {NoOrder} \cup {Order(i, pt, "active") : i \in OrderIds, pt \in BOOLEAN} :
       restoreFromServer(r, ok, active) =>
         IF ok /\ active # NoOrder
           THEN /\ currentOrder' = active
                /\ isOnShift'
                /\ zoneCheckInterval'
                /\ buttonText' = IF active.pickup_time THEN "to_dropoff" ELSE "to_pickup"
                /\ supported =>
                     \E q \in BagToSet(inflight') :
                       RestoreRequest(q) /\ CopiesIn(q, inflight') = CopiesIn(q, inflight) + 1
           ELSE /\ UNCHANGED gameVars
                /\ inflight' = Recv(r)]_vars

\* an order with pickup_time has just been restored from the server
C32_Witness ==
  /\ isOnShift /\ hasOrder /\ currentOrder.pickup_time
  /\ ~isSearching
  /\ zoneCheckInterval
  /\ buttonText = "to_dropoff"
  /\ balance = "response"
  /\ \E q \in BagToSet(inflight) : RestoreRequest(q)
  /\ ~currentPosition

\* C33: declining an offered order discards it: closing the order modal
\* without accepting sends a cancel request; when close() goes on after it,
\* currentOrder becomes null and, if the session is on shift, the search
\* resumes (isSearching = true, and the start_order_search scheduled by it is
\* emitted); if the session is not on shift no search is started.
C33_DeclineDiscards ==
  /\ [][(hasOrder /\ ClickDecline) =>
          (inflight' = Send(Req("cancel", "modal", 0)) /\ ~modalOpen')]_vars
  /\ [][\A r \in BagToSet(inflight) :
          closeAfterCancel(r) =>
            /\ currentOrder' = NoOrder
            /\ IF isOnShift
                 THEN isSearching' /\ emitTimers' = emitTimers + 1
                 ELSE isSearching' = isSearching /\ emitTimers' = emitTimers]_vars
  /\ (emitTimers > 0) ~> (srvSearch = "started")

\* an offered order has been declined on shift: the modal is closed, the
\* cancel request is in flight and close() will resume the search after it
C33_Witness ==
  /\ isOnShift /\ ~isSearching
  /\ hasOrder /\ currentOrder.status = "offered"
  /\ ~modalOpen
  /\ emitTimers = 0
  /\ Req("cancel", "modal", 0) \in BagToSet(inflight)
  /\ ENABLED CancelResponse

\* an offered order was declined after the shift had ended: no search starts
C33_DeclinedOffShift ==
  /\ ~isOnShift /\ hasOrder /\ ~modalOpen
  /\ Req("cancel", "modal", 0) \in BagToSet(inflight)

\* a request of the given kind is issued by the step
Issued(kind) ==
  \E q \in BagToSet(inflight') :
    q.kind = kind /\ CopiesIn(q, inflight') > CopiesIn(q, inflight)

\* C34: server calls match the order phase: POST /api/order/pickup is issued
\* only while the session holds an accepted order whose pickup_time is
\* unset, POST /api/order/deliver only while it holds an accepted order whose
\* pickup_time is set; neither for an offered order or without an order.
C34_CallsMatchPhase ==
  /\ [][Issued("pickup") =>
          (hasOrder /\ currentOrder.status = "active" /\ ~currentOrder.pickup_time)]_vars
  /\ [][Issued("deliver") =>
          (hasOrder /\ currentOrder.status = "active" /\ currentOrder.pickup_time)]_vars

\* C35: the last search command on the channel agrees with the searching
\* flag: start_order_search is emitted only while isSearching is true, so
\* that a stopSearching inside the 100 ms between startSearching setting the
\* flag and its delayed emit is not followed by a start_order_search.
C35_NoStartAfterStop ==
  [][EmitTimerFires => isSearching]_vars

\* a step on which start_order_search is emitted
StartOrderSearchEmitted ==
  \/ EmitTimerFires
  \/ SearchTimerFiresLoginOnce
  \/ isOnShift /\ ~hasOrder /\ ClickDeclineLoginOnce
  \/ isOnShift /\ CancelResponseLoginOnce

\* C36: every start_order_search emitted on the channel is preceded, in the
\* same page session, by at least one user_login emission, on every path
\* that starts a search (start shift, declined order, delivery after a
\* server-side restore).
C36_LoginBeforeSearch ==
  [][StartOrderSearchEmitted => loggedIn]_vars

\* C37: no duplicate background activities: after any sequence of
\* startZoneChecking / stopZoneChecking and startTracking / stopTracking
\* calls (start twice in a row included) at most one zone-poll interval
\* timer and at most one geolocation watch are active, and they are the ones
\* the handles refer to.
C37_NoDuplicateActivities ==
  /\ intervalTimers = (IF zoneCheckInterval THEN 1 ELSE 0)
  /\ watches = (IF isTracking THEN 1 ELSE 0)

\* off shift, both activities were started by direct calls and a further
\* start can follow
C37_Witness ==
  /\ ~isOnShift /\ ~hasOrder
  /\ zoneCheckInterval /\ intervalTimers = 1
  /\ isTracking /\ watches = 1
  /\ ENABLED startZoneChecking /\ ENABLED startTracking

\* the number of requests of the given kind that are in flight
InFlight(kind) ==
  BagCardinality([q \in {p \in BagToSet(inflight) : p.kind = kind} |-> CopiesIn(q, inflight)])

\* C38: re-entrancy of the primary action: at most one start_shift, one
\* stop_shift, one pickup and one deliver request is in flight at any time;
\* a click made while one is in flight does not issue a second of its kind.
C38_NoSecondRequestInFlight ==
  \A kind \in {"start_shift", "stop_shift", "pickup", "deliver"} : InFlight(kind) <= 1
====
